---- MODULE Spec2Model ----
(***************************************************************************)
(* Model of src/app/routes/games/Bundle.js: the batch read `Bundle.get`    *)
(* (filter validation, store reads, staleness evaluation, queue write) and *)
(* the refresh `Bundle.fetch` (scrape, transactional upsert), running      *)
(* against the three tables games__bundle, games__bundle_name and          *)
(* games__bundle_app.                                                      *)
(***************************************************************************)
EXTENDS Integers, Sequences, FiniteSets, Bags, TLC

\* ------------------------------------------------------------------ bounds
\* how many times the clock advances in a behaviour
MaxTicks == 1
\* how many calls of get and fetch a behaviour makes
MaxCalls == 2

\* ------------------------------------------------------------------ domains
Ids == {1, 12}
Apps == {10, 20}

Day == 60 * 60 * 24
Hour == 60 * 60
\* the clock at the start of a behaviour (2019/04/14 00:00:00 UTC)
StartTime == 18000 * Day
\* how far one step of the clock may move it
TickSteps == {2 * Hour, 6 * Day, 7 * Day}

\* a page without a .pageheader element
NoHeader == "NoHeader"
\* the value of a property that a row or an object does not have
Undefined == "undefined"

\* ------------------------------------------------------------------ helpers
RECURSIVE SeqToSet(_)
SeqToSet(s) == IF s = <<>> THEN {} ELSE {Head(s)} \cup SeqToSet(Tail(s))

Min(S) == CHOOSE x \in S : \A y \in S : x <= y

\* the elements of a set of integers in ascending order (index order of a key)
RECURSIVE SortedSeq(_)
SortedSeq(S) == IF S = {} THEN <<>> ELSE <<Min(S)>> \o SortedSeq(S \ {Min(S)})

RECURSIVE SelectSeq2(_, _)
\* Array.prototype.filter with a set-membership test
SelectSeq2(s, S) ==
    IF s = <<>> THEN <<>>
    ELSE (IF Head(s) \in S THEN <<Head(s)>> ELSE <<>>) \o SelectSeq2(Tail(s), S)

\* ------------------------------------------------------------------ filters
\* A filter string is a sequence of lexemes; the string is their concatenation.
\* e.g. <<"name", ",", "bogus">> is "name,bogus" and <<"name", "removed">> is
\* "nameremoved".
columnKeys == <<"name", "removed", "apps">>
ColumnKeySet == SeqToSet(columnKeys)

FilterInputs ==
    { <<>>,
      <<"name">>, <<"apps">>,
      <<"name", "removed">>,
      <<"name", ",", "bogus">> }

\* a mutant of FilterRegex: any word may stand where a column key may
FilterRegex_AnyWord(s) ==
    \A i \in 1..Len(s) : s[i] = "," => i > 1 /\ s[i - 1] # ","

\* new RegExp(`^(((name|removed|apps),?)+)?$`).test(s)
FilterRegex(s) ==
    \A i \in 1..Len(s) :
        \/ s[i] \in ColumnKeySet
        \/ s[i] = "," /\ i > 1 /\ s[i - 1] \in ColumnKeySet

\* Utils.validateParams(params, validator): TRUE when it throws
validateParams(params) == ~FilterRegex(params)

\* s.split(','): the tokens between commas, each a sequence of lexemes
RECURSIVE Split(_, _)
Split(s, cur) ==
    IF s = <<>> THEN <<cur>>
    ELSE IF Head(s) = "," THEN <<cur>> \o Split(Tail(s), <<>>)
    ELSE Split(Tail(s), Append(cur, Head(s)))

\* req.query.filters || req.query.bundle_filters || ''
ParamsOf(req) == IF req.filters # <<>> THEN req.filters ELSE req.bundle_filters

\* the keys left in `filters` (and in `columns`) after lines 51-63
FiltersOf(params) ==
    IF params = <<>> THEN ColumnKeySet
    ELSE LET filterKeys == SeqToSet(Split(params, <<>>))
         IN  {k \in ColumnKeySet : <<k>> \in filterKeys}

\* ------------------------------------------------------------------ store
\* games__bundle      : bundle_id -> [removed, last_update, queued_for_update]
\* games__bundle_name : the rows <<bundle_id, name>>, as a set
\* games__bundle_app  : the rows <<bundle_id, app_id>>, as a bag
VARIABLES games__bundle, games__bundle_name, games__bundle_app

\* the clock (Date.now() / 1e3) and how many times it has advanced
VARIABLES now, ticks

\* how many calls of get and fetch have begun
VARIABLES calls

\* the call of Bundle.get and the calls of Bundle.fetch, in progress or finished:
\* their position (pc), their locals, and for the record the bundles that had a
\* row when get read (known), their records as stored then (read) and the
\* statement that threw in fetch (thrownAt)
VARIABLES get, fetch

vars == <<games__bundle, games__bundle_name, games__bundle_app, now, ticks, calls, get, fetch>>
store == <<games__bundle, games__bundle_name, games__bundle_app>>

\* column defaults of a row inserted with (bundle_id, queued_for_update) only
DefaultRemoved == FALSE
DefaultLastUpdate == 0

\* the bundles that have a row in games__bundle_name, and the name of one
HasName(n) == {r[1] : r \in n}
NameOf(n, id) == (CHOOSE r \in n : r[1] = id)[2]

\* the app ids of a bundle in games__bundle_app, and their rows in key order
AppsOf(a, id) == {app \in Apps : BagIn(<<id, app>>, a)}
RECURSIVE AppRowsOf(_, _, _)
AppRowsOf(a, id, order) ==
    IF order = <<>> THEN <<>>
    ELSE [i \in 1..CopiesIn(<<id, Head(order)>>, a) |-> Head(order)]
         \o AppRowsOf(a, id, Tail(order))

\* one row of the first SELECT of get: the columns depend on the filters
RowOf(b, n, id, filters) ==
    [bundle_id |-> id,
     last_update |-> b[id].last_update,
     queued_for_update |-> b[id].queued_for_update]
    @@ (IF "name" \in filters THEN [name |-> NameOf(n, id)] ELSE <<>>)
    @@ (IF "removed" \in filters THEN [removed |-> b[id].removed] ELSE <<>>)

\* SELECT ... FROM games__bundle [INNER JOIN games__bundle_name] WHERE bundle_id IN (ids)
SelectRows(b, n, ids, filters) ==
    LET found == {id \in SeqToSet(ids) \cap DOMAIN b :
                     "name" \in filters => id \in HasName(n)}
        order == SortedSeq(found)
    IN  [i \in 1..Len(order) |-> RowOf(b, n, order[i], filters)]

\* SELECT bundle_id, GROUP_CONCAT(app_id) ... GROUP BY bundle_id, then
\* Utils.getQueryMap(appRows, 'bundle_id'): bundle_id -> its app ids
SelectAppMap(a, ids) ==
    LET grouped == {id \in SeqToSet(ids) : AppsOf(a, id) # {}}
    IN  [id \in grouped |-> AppRowsOf(a, id, SortedSeq(AppsOf(a, id)))]

\* row.name and row.removed of a row that may lack the column
RowName(row) == IF "name" \in DOMAIN row THEN row.name ELSE Undefined
RowRemoved(row) == IF "removed" \in DOMAIN row THEN row.removed ELSE FALSE

\* Utils.isSet(value)
isSet(value) == value # Undefined /\ value # ""

\* Utils.formatDate(seconds * 1e3, true): YYYY/MM/DD HH:mm:SS in UTC, as
\* <<YYYY, MM, DD, HH, mm, SS>>
formatDate(t) ==
    LET z == (t \div Day) + 719468
        era == z \div 146097
        doe == z % 146097
        yoe == (doe - (doe \div 1460) + (doe \div 36524) - (doe \div 146096)) \div 365
        doy == doe - (365 * yoe + (yoe \div 4) - (yoe \div 100))
        mp == (5 * doy + 2) \div 153
        d == doy - ((153 * mp + 2) \div 5) + 1
        m == IF mp < 10 THEN mp + 3 ELSE mp - 9
        y == yoe + era * 400 + (IF m <= 2 THEN 1 ELSE 0)
        s == t % Day
    IN  <<y, m, d, s \div Hour, (s % Hour) \div 60, s % 60>>

\* a mutant of Stale: only the test on records without a name is made
Stale_NamelessOnly(row, t) ==
    /\ ~isSet(RowName(row))
    /\ ~RowRemoved(row)
    /\ t - row.last_update > 60 * 60 * 24

\* the staleness test of lines 123-128 on a row whose flag is not set
Stale(row, t) ==
    LET differenceInSeconds == t - row.last_update
    IN  \/ differenceInSeconds > 60 * 60 * 24 * 6
        \/ /\ ~isSet(RowName(row))
           /\ ~RowRemoved(row)
           /\ differenceInSeconds > 60 * 60 * 24

\* a mutant of BundleOf: removed is set whatever the filters are
BundleOf_AlwaysRemoved(row, filters, appMap, t) ==
    [bundle_id |-> row.bundle_id, removed |-> RowRemoved(row)]
    @@ (IF "name" \in filters THEN [name |-> row.name] ELSE <<>>)
    @@ (IF "apps" \in filters
        THEN [apps |-> IF row.bundle_id \in DOMAIN appMap
                       THEN appMap[row.bundle_id] ELSE <<>>]
        ELSE <<>>)
    @@ [last_update |-> formatDate(row.last_update),
        queued_for_update |-> row.queued_for_update \/ Stale(row, t)]

\* the `bundle` object built for one row by lines 107-132
BundleOf(row, filters, appMap, t) ==
    [bundle_id |-> row.bundle_id]
    @@ (IF "name" \in filters THEN [name |-> row.name] ELSE <<>>)
    @@ (IF "removed" \in filters THEN [removed |-> row.removed] ELSE <<>>)
    @@ (IF "apps" \in filters
        THEN [apps |-> IF row.bundle_id \in DOMAIN appMap
                       THEN appMap[row.bundle_id] ELSE <<>>]
        ELSE <<>>)
    @@ [last_update |-> formatDate(row.last_update),
        queued_for_update |-> row.queued_for_update \/ Stale(row, t)]

\* `bundles` after the loop of lines 106-135
BundlesOf(rows, filters, appMap, t) ==
    [i \in 1..Len(rows) |-> BundleOf(rows[i], filters, appMap, t)]

RECURSIVE StaleIds(_, _)
\* the identifiers the loop pushes to to_queue, in row order
StaleIds(rows, t) ==
    IF rows = <<>> THEN <<>>
    ELSE (IF ~Head(rows).queued_for_update /\ Stale(Head(rows), t)
          THEN <<Head(rows).bundle_id>> ELSE <<>>) \o StaleIds(Tail(rows), t)

\* `found` and `notFound` of lines 134-136
FoundOf(rows) == {rows[i].bundle_id : i \in 1..Len(rows)}
\* a mutant of NotFoundOf: the identifiers without a row are forgotten
NotFoundOf_Forgotten(ids, rows) == <<>>
NotFoundOf(ids, rows) == SelectSeq2(ids, Ids \ FoundOf(rows))

\* to_queue after line 137
ToQueueOf(ids, rows, t) == StaleIds(rows, t) \o NotFoundOf(ids, rows)

\* a mutant of QueueWrite: a row that exists is left as it is (INSERT IGNORE)
QueueWrite_IfAbsent(b, to_queue) ==
    [id \in DOMAIN b \cup SeqToSet(to_queue) |->
        IF id \in DOMAIN b THEN b[id]
        ELSE [removed |-> DefaultRemoved,
              last_update |-> DefaultLastUpdate,
              queued_for_update |-> TRUE]]

\* a mutant of QueueWrite: an existing row is replaced by the inserted one
QueueWrite_Replace(b, to_queue) ==
    [id \in DOMAIN b \cup SeqToSet(to_queue) |->
        IF id \in SeqToSet(to_queue)
        THEN [removed |-> DefaultRemoved,
              last_update |-> DefaultLastUpdate,
              queued_for_update |-> TRUE]
        ELSE b[id]]

\* INSERT INTO games__bundle (bundle_id, queued_for_update) VALUES (id, TRUE), ...
\* ON DUPLICATE KEY UPDATE queued_for_update = VALUES(queued_for_update)
QueueWrite(b, to_queue) ==
    [id \in DOMAIN b \cup SeqToSet(to_queue) |->
        IF id \in SeqToSet(to_queue)
        THEN IF id \in DOMAIN b
             THEN [b[id] EXCEPT !.queued_for_update = TRUE]
             ELSE [removed |-> DefaultRemoved,
                   last_update |-> DefaultLastUpdate,
                   queued_for_update |-> TRUE]
        ELSE b[id]]

\* ------------------------------------------------------------------ get
\* a call has returned (or thrown, or none was made): the next one may begin
Resting == {"idle", "done", "failed"}

GetIdle ==
    [pc |-> "idle", ids |-> <<>>, params |-> <<>>, known |-> {}, read |-> <<>>,
     rows |-> <<>>, appMap |-> <<>>, bundles |-> <<>>, to_queue |-> <<>>, err |-> ""]

\* the record of a bundle as the store holds it: its primary row and its name
\* (Undefined when it has no name row)
RecordOf(b, n, id) ==
    [removed |-> b[id].removed,
     last_update |-> b[id].last_update,
     queued_for_update |-> b[id].queued_for_update,
     name |-> IF id \in HasName(n) THEN NameOf(n, id) ELSE Undefined]

\* the requests: the identifier list and the two query parameters
IdLists == {<<12, 1, 12>>}
Requests ==
    {[filters |-> f, bundle_filters |-> <<>>] : f \in FilterInputs}
    \cup {[filters |-> <<>>, bundle_filters |-> <<"removed">>]}

\* the connections that can run a fetch, and those that do
Procs == {"f1", "f2"}
Fetchers == {"f1"}

\* a fetch holds the row locks of its bundle from its first write to the end
\* of its transaction
Locked(id) ==
    \E p \in Procs :
        fetch[p].bundleId = id /\ fetch[p].pc \in {"name", "apps", "commit"}

\* lines 102-137 on the rows read: bundles, to_queue, and whether a write follows
Evaluated(g, t) ==
    LET filters == FiltersOf(g.params)
        to_queue == ToQueueOf(g.ids, g.rows, t)
    IN  [g EXCEPT !.bundles = BundlesOf(g.rows, filters, g.appMap, t),
                  !.to_queue = to_queue,
                  !.pc = IF Len(to_queue) > 0 THEN "queue" ELSE "done"]

\* lines 37-49: the filter string fails validation and get throws
GetInvalid(ids, req) ==
    /\ calls < MaxCalls
    /\ get.pc \in Resting
    /\ validateParams(ParamsOf(req))
    /\ get' = [GetIdle EXCEPT !.pc = "failed", !.ids = ids,
                              !.params = ParamsOf(req), !.err = "validation"]
    /\ calls' = calls + 1
    /\ UNCHANGED <<store, now, ticks, fetch>>

\* lines 30-86 (and 102-137 when apps is not requested): validation passes, the
\* filters are parsed and the first SELECT reads the store
GetCall(ids, req) ==
    /\ calls < MaxCalls
    /\ get.pc \in Resting
    /\ ~validateParams(ParamsOf(req))
    /\ LET params == ParamsOf(req)
           filters == FiltersOf(params)
           g == [GetIdle EXCEPT
                    !.ids = ids, !.params = params,
                    !.known = SeqToSet(ids) \cap DOMAIN games__bundle,
                    !.read = [id \in SeqToSet(ids) \cap DOMAIN games__bundle |->
                                 RecordOf(games__bundle, games__bundle_name, id)],
                    !.rows = SelectRows(games__bundle, games__bundle_name, ids, filters)]
       IN  get' = IF "apps" \in filters THEN [g EXCEPT !.pc = "apps"]
                  ELSE Evaluated(g, now)
    /\ calls' = calls + 1
    /\ UNCHANGED <<store, now, ticks, fetch>>

\* lines 88-137: the second SELECT reads the app rows, then the loop runs
GetApps ==
    /\ get.pc = "apps"
    /\ get' = Evaluated([get EXCEPT !.appMap = SelectAppMap(games__bundle_app, get.ids)],
                        now)
    /\ UNCHANGED <<store, now, ticks, calls, fetch>>

\* lines 138-150: the queue write, in its own transaction, then the return
GetQueue ==
    /\ get.pc = "queue"
    /\ \A id \in SeqToSet(get.to_queue) : ~Locked(id)
    /\ games__bundle' = QueueWrite(games__bundle, get.to_queue)
    /\ get' = [get EXCEPT !.pc = "done"]
    /\ UNCHANGED <<games__bundle_name, games__bundle_app, now, ticks, calls, fetch>>

\* a query of get fails in the store: the error propagates, nothing is written
\* and nothing is returned
GetQueryFails ==
    /\ get.pc \in {"apps", "queue"}
    /\ get' = [get EXCEPT !.pc = "failed", !.err = "store", !.bundles = <<>>]
    /\ UNCHANGED <<store, now, ticks, calls, fetch>>

\* ------------------------------------------------------------------ fetch
\* What Request.get resolves to: html (whether there is content), url (the
\* bundle number in the final URL on store.steampowered.com, 0 when the final
\* URL is no bundle page), header (the text of .pageheader, or NoHeader) and
\* apps (the app ids of the [data-ds-appid] elements).
NoContent == [html |-> FALSE, url |-> 0, header |-> NoHeader, apps |-> {}]

Page(url, header, apps) == [html |-> TRUE, url |-> url, header |-> header, apps |-> apps]

\* the pages a fetch of bundleId may be answered with: nothing, a redirect to
\* the storefront, the bundle's own page without header, with one app and with
\* two and, for bundle 1, the page of bundle 12
PagesOf(bundleId) ==
    {NoContent, Page(0, "A", {10}),
     Page(bundleId, NoHeader, {10}),
     Page(bundleId, "A", {10}), Page(bundleId, "A", {10, 20})}
    \cup (IF bundleId = 1 THEN {Page(12, "A", {20})} ELSE {})

RECURSIVE DigitPrefix(_, _)
\* the decimal digits of n start with those of a
DigitPrefix(a, n) == n = a \/ (n >= 10 /\ DigitPrefix(a, n \div 10))

\* storeResponse.url.match(new RegExp(`store\.steampowered\.com.*?\/bundle\/${bundleId}`))
UrlMatches(url, bundleId) == url # 0 /\ DigitPrefix(bundleId, url)

\* lines 168-188
isStoreResponseOk(r) == r.header # NoHeader
Removed(r, bundleId) == ~UrlMatches(r.url, bundleId)
\* bundleName, with null as Undefined
BundleName(r, bundleId) ==
    IF isStoreResponseOk(r) /\ ~Removed(r, bundleId) THEN r.header ELSE Undefined
AppsFound(r, bundleId) ==
    IF isStoreResponseOk(r) /\ ~Removed(r, bundleId) THEN r.apps ELSE {}
\* if (bundleName): null and the empty string are falsy
Truthy(name) == name # Undefined /\ name # ""

\* the rows of one bundle, as a transaction on that bundle sees them
EmptyView == [b |-> <<>>, n |-> {}, a |-> EmptyBag]
View(b, n, a, id) ==
    [b |-> [i \in {id} \cap DOMAIN b |-> b[i]],
     n |-> {r \in n : r[1] = id},
     a |-> [e \in {e \in DOMAIN a : e[1] = id} |-> a[e]]]

FetchIdle ==
    [pc |-> "idle", bundleId |-> 0, storeResponse |-> NoContent,
     last_update |-> 0, tx |-> EmptyView, err |-> "", thrownAt |-> ""]

\* a mutant of UpsertBundle: the primary row is not written
UpsertBundle_Skipped(v, bundleId, removed, last_update) == v

\* a mutant of UpsertBundle: on a duplicate key queued_for_update is left as it is
UpsertBundle_KeepsFlag(v, bundleId, removed, last_update) ==
    [v EXCEPT !.b = [i \in {bundleId} |->
                        [removed |-> removed, last_update |-> last_update,
                         queued_for_update |->
                            IF i \in DOMAIN v.b THEN v.b[i].queued_for_update ELSE FALSE]]]

\* INSERT INTO games__bundle (bundle_id, removed, last_update, queued_for_update)
\* ... ON DUPLICATE KEY UPDATE every column
UpsertBundle(v, bundleId, removed, last_update) ==
    [v EXCEPT !.b = [i \in {bundleId} |->
                        [removed |-> removed, last_update |-> last_update,
                         queued_for_update |-> FALSE]]]

\* INSERT IGNORE INTO games__bundle_name (bundle_id, name)
InsertIgnoreName(v, bundleId, name) ==
    IF bundleId \in HasName(v.n) THEN v
    ELSE [v EXCEPT !.n = @ \cup {<<bundleId, name>>}]

\* a mutant of InsertIgnoreApps: the rows are inserted whether or not they exist
InsertIgnoreApps_Plain(v, bundleId, apps) ==
    [v EXCEPT !.a = @ (+) SetToBag({<<bundleId, app>> : app \in apps})]

\* INSERT IGNORE INTO games__bundle_app (bundle_id, app_id) VALUES ...
InsertIgnoreApps(v, bundleId, apps) ==
    [v EXCEPT !.a = @ (+) SetToBag({<<bundleId, app>> : app \in apps \ AppsOf(@, bundleId)})]

\* the three statements of lines 191-220 on the rows of the bundle
FetchWrites(v, bundleId, r, last_update) ==
    LET v1 == UpsertBundle(v, bundleId, Removed(r, bundleId), last_update)
        v2 == IF Truthy(BundleName(r, bundleId))
              THEN InsertIgnoreName(v1, bundleId, BundleName(r, bundleId)) ELSE v1
    IN  IF AppsFound(r, bundleId) # {}
        THEN InsertIgnoreApps(v2, bundleId, AppsFound(r, bundleId)) ELSE v2

\* where fetch goes after the statement at `pc`
AfterUpsert(r, bundleId) ==
    IF Truthy(BundleName(r, bundleId)) THEN "name"
    ELSE IF AppsFound(r, bundleId) # {} THEN "apps" ELSE "commit"
AfterName(r, bundleId) == IF AppsFound(r, bundleId) # {} THEN "apps" ELSE "commit"

\* lines 164-167: the request yields no content and fetch throws the 500
FetchUnavailable(p, bundleId, r) ==
    /\ calls < MaxCalls
    /\ fetch[p].pc \in Resting
    /\ ~r.html
    /\ fetch' = [fetch EXCEPT ![p] = [FetchIdle EXCEPT !.pc = "failed",
                     !.bundleId = bundleId, !.storeResponse = r, !.err = "steam"]]
    /\ calls' = calls + 1
    /\ UNCHANGED <<store, now, ticks, get>>

\* a mutant of FetchScrape: the response is used without the test of line 165
FetchScrape_Unchecked(p, bundleId, r) ==
    /\ calls < MaxCalls
    /\ fetch[p].pc \in Resting
    /\ fetch' = [fetch EXCEPT ![p] = [FetchIdle EXCEPT !.pc = "upsert",
                     !.bundleId = bundleId, !.storeResponse = r, !.last_update = now]]
    /\ calls' = calls + 1
    /\ UNCHANGED <<store, now, ticks, get>>

\* lines 157-189: the page arrives, the record is built and the transaction begins
FetchScrape(p, bundleId, r) ==
    /\ calls < MaxCalls
    /\ fetch[p].pc \in Resting
    /\ r.html
    /\ fetch' = [fetch EXCEPT ![p] = [FetchIdle EXCEPT !.pc = "upsert",
                     !.bundleId = bundleId, !.storeResponse = r, !.last_update = now]]
    /\ calls' = calls + 1
    /\ UNCHANGED <<store, now, ticks, get>>

\* a mutant of FetchUpsert: the upsert is committed as it is made
FetchUpsert_Autocommit(p) ==
    LET f == fetch[p]
        tx == UpsertBundle(View(games__bundle, games__bundle_name, games__bundle_app,
                                f.bundleId),
                           f.bundleId, Removed(f.storeResponse, f.bundleId),
                           f.last_update)
    IN  /\ f.pc = "upsert"
        /\ ~Locked(f.bundleId)
        /\ games__bundle' =
              [i \in DOMAIN games__bundle \cup {f.bundleId} |->
                  IF i = f.bundleId THEN tx.b[i] ELSE games__bundle[i]]
        /\ fetch' = [fetch EXCEPT ![p] = [f EXCEPT
                !.tx = tx, !.pc = AfterUpsert(f.storeResponse, f.bundleId)]]
        /\ UNCHANGED <<games__bundle_name, games__bundle_app, now, ticks, calls, get>>

\* a mutant of FetchUpsert: the statement does not wait for the row lock
FetchUpsert_NoWait(p) ==
    LET f == fetch[p] IN
    /\ f.pc = "upsert"
    /\ fetch' = [fetch EXCEPT ![p] = [f EXCEPT
            !.tx = UpsertBundle(View(games__bundle, games__bundle_name, games__bundle_app,
                                     f.bundleId),
                                f.bundleId, Removed(f.storeResponse, f.bundleId),
                                f.last_update),
            !.pc = AfterUpsert(f.storeResponse, f.bundleId)]]
    /\ UNCHANGED <<store, now, ticks, calls, get>>

\* lines 191-200: the upsert of the primary row
FetchUpsert(p) ==
    LET f == fetch[p] IN
    /\ f.pc = "upsert"
    /\ ~Locked(f.bundleId)
    /\ fetch' = [fetch EXCEPT ![p] = [f EXCEPT
            !.tx = UpsertBundle(View(games__bundle, games__bundle_name, games__bundle_app,
                                     f.bundleId),
                                f.bundleId, Removed(f.storeResponse, f.bundleId),
                                f.last_update),
            !.pc = AfterUpsert(f.storeResponse, f.bundleId)]]
    /\ UNCHANGED <<store, now, ticks, calls, get>>

\* lines 201-209: the insert of the name row
FetchName(p) ==
    LET f == fetch[p] IN
    /\ f.pc = "name"
    /\ fetch' = [fetch EXCEPT ![p] = [f EXCEPT
            !.tx = InsertIgnoreName(f.tx, f.bundleId, BundleName(f.storeResponse, f.bundleId)),
            !.pc = AfterName(f.storeResponse, f.bundleId)]]
    /\ UNCHANGED <<store, now, ticks, calls, get>>

\* lines 210-220: the insert of the app rows
FetchApps(p) ==
    LET f == fetch[p] IN
    /\ f.pc = "apps"
    /\ fetch' = [fetch EXCEPT ![p] = [f EXCEPT
            !.tx = InsertIgnoreApps(f.tx, f.bundleId, AppsFound(f.storeResponse, f.bundleId)),
            !.pc = "commit"]]
    /\ UNCHANGED <<store, now, ticks, calls, get>>

\* Pool.commit: the rows of the transaction replace the stored rows of its bundle
CommitBundle(b, v) == [i \in DOMAIN b \cup DOMAIN v.b |-> IF i \in DOMAIN v.b THEN v.b[i] ELSE b[i]]
CommitName(n, v, id) == {r \in n : r[1] # id} \cup v.n
CommitApp(a, v, id) == [e \in {e \in DOMAIN a : e[1] # id} |-> a[e]] (+) v.a

\* line 221: the commit
FetchCommit(p) ==
    LET f == fetch[p] IN
    /\ f.pc = "commit"
    /\ games__bundle' = CommitBundle(games__bundle, f.tx)
    /\ games__bundle_name' = CommitName(games__bundle_name, f.tx, f.bundleId)
    /\ games__bundle_app' = CommitApp(games__bundle_app, f.tx, f.bundleId)
    /\ fetch' = [fetch EXCEPT ![p] = [f EXCEPT !.pc = "done", !.tx = EmptyView]]
    /\ UNCHANGED <<now, ticks, calls, get>>

\* a mutant of FetchCatch: the error is thrown again without the rollback, and
\* the rows written so far stay
FetchCatch_NoRollback(p) ==
    LET f == fetch[p] IN
    /\ f.pc \in {"upsert", "name", "apps", "commit"}
    /\ IF f.pc = "upsert" THEN UNCHANGED store
       ELSE /\ games__bundle' = CommitBundle(games__bundle, f.tx)
            /\ games__bundle_name' = CommitName(games__bundle_name, f.tx, f.bundleId)
            /\ games__bundle_app' = CommitApp(games__bundle_app, f.tx, f.bundleId)
    /\ fetch' = [fetch EXCEPT ![p] = [f EXCEPT !.pc = "failed", !.tx = EmptyView,
                                                !.err = "store", !.thrownAt = f.pc]]
    /\ UNCHANGED <<now, ticks, calls, get>>

\* lines 222-225: a statement of the transaction (or the commit) throws; the
\* transaction is rolled back and the error is thrown again
FetchCatch(p) ==
    LET f == fetch[p] IN
    /\ f.pc \in {"upsert", "name", "apps", "commit"}
    /\ fetch' = [fetch EXCEPT ![p] = [f EXCEPT !.pc = "failed", !.tx = EmptyView,
                                                !.err = "store", !.thrownAt = f.pc]]
    /\ UNCHANGED <<store, now, ticks, calls, get>>

\* ------------------------------------------------------------------ clock
Tick(d) ==
    /\ ticks < MaxTicks
    /\ now' = now + d
    /\ ticks' = ticks + 1
    /\ UNCHANGED <<store, calls, get, fetch>>

\* ------------------------------------------------------------------ system
Init ==
    /\ games__bundle = <<>>
    /\ games__bundle_name = {}
    /\ games__bundle_app = EmptyBag
    /\ now = StartTime
    /\ ticks = 0
    /\ calls = 0
    /\ get = GetIdle
    /\ fetch = [p \in Procs |-> FetchIdle]

Next ==
    \/ \E ids \in IdLists, req \in Requests : GetInvalid(ids, req)
    \/ \E ids \in IdLists, req \in Requests : GetCall(ids, req)
    \/ GetApps
    \/ GetQueue
    \/ GetQueryFails
    \/ \E p \in Fetchers, id \in Ids : \E r \in PagesOf(id) : FetchUnavailable(p, id, r)
    \/ \E p \in Fetchers, id \in Ids : \E r \in PagesOf(id) : FetchScrape(p, id, r)
    \/ \E p \in Fetchers : FetchUpsert(p)
    \/ \E p \in Fetchers : FetchName(p)
    \/ \E p \in Fetchers : FetchApps(p)
    \/ \E p \in Fetchers : FetchCommit(p)
    \/ \E p \in Fetchers : FetchCatch(p)
    \/ \E d \in TickSteps : Tick(d)

Spec == Init /\ [][Next]_vars

\* ------------------------------------------------------------------ two fetches
\* The store in which two connections each run one fetch: bundle 12 was
\* fetched at StartTime (its own page, name A, app 10) and 7 days later a get
\* has queued it again, together with bundle 1, which it did not know.
InitBundle19 ==
    [id \in Ids |->
        IF id = 12
        THEN [removed |-> FALSE, last_update |-> StartTime,
              queued_for_update |-> TRUE]
        ELSE [removed |-> DefaultRemoved, last_update |-> DefaultLastUpdate,
              queued_for_update |-> TRUE]]
InitName19 == {<<12, "A">>}
InitApp19 == SetToBag({<<12, 10>>})

Init19 ==
    /\ games__bundle = InitBundle19
    /\ games__bundle_name = InitName19
    /\ games__bundle_app = InitApp19
    /\ now = StartTime + 7 * Day
    /\ ticks = 0
    /\ calls = 0
    /\ get = GetIdle
    /\ fetch = [p \in Procs |-> FetchIdle]

\* each connection calls fetch once
Next19 ==
    \/ \E p \in Procs, id \in Ids : \E r \in PagesOf(id) :
            fetch[p].pc = "idle" /\ FetchUnavailable(p, id, r)
    \/ \E p \in Procs, id \in Ids : \E r \in PagesOf(id) :
            fetch[p].pc = "idle" /\ FetchScrape(p, id, r)
    \/ \E p \in Procs : FetchUpsert(p)
    \/ \E p \in Procs : FetchName(p)
    \/ \E p \in Procs : FetchApps(p)
    \/ \E p \in Procs : FetchCommit(p)
    \/ \E p \in Procs : FetchCatch(p)
    \/ \E d \in TickSteps : Tick(d)

Spec19 == Init19 /\ [][Next19]_vars

\* ------------------------------------------------------------------ steps
\* the step in which a call of get begins, and the step in which one returns
GetBegins == get.pc \in Resting /\ get' # get
GetCompletes == get' # get /\ get'.pc = "done"
\* the steps in which a call of fetch begins, commits, and throws from its
\* transaction
FetchBegins(p) == fetch[p].pc \in Resting /\ fetch'[p] # fetch[p]
FetchCommits(p) == fetch[p].pc = "commit" /\ fetch'[p].pc = "done"
InTransaction == {"upsert", "name", "apps", "commit"}
FetchThrows(p) == fetch[p].pc \in InTransaction /\ fetch'[p].pc = "failed"

\* the step in which get runs the loop over the rows it read (lines 102-137):
\* `now` is the time it takes at line 105
GetEvaluates ==
    get' # get /\ get.pc \in Resting \cup {"apps"} /\ get'.pc \in {"queue", "done"}

\* the step in which the queue write of get is made
GetWrites == get.pc = "queue" /\ get'.pc = "done"

\* the bundle_ids of the projections get returned
Returned(g) == {g.bundles[i].bundle_id : i \in 1..Len(g.bundles)}

\* ------------------------------------------------------------------ claims

\* C1: when get completes, every requested identifier that had no row in
\* games__bundle when get read has a row with queued_for_update = TRUE, and no
\* projection of it is returned.
C1_UnknownQueued ==
    [][GetCompletes =>
        \A id \in SeqToSet(get'.ids) \ get'.known :
            /\ id \in DOMAIN games__bundle'
            /\ games__bundle'[id].queued_for_update
            /\ id \notin Returned(get')]_vars

\* a get of bundles 12 and 1 has completed; 12 had no row, has one now, queued,
\* and the projections hold bundle 1 only
C1_Witness ==
    /\ get.pc = "done"
    /\ get.ids = <<12, 1, 12>>
    /\ get.known = {1}
    /\ Returned(get) = {1}
    /\ 12 \in DOMAIN games__bundle
    /\ games__bundle[12].queued_for_update

\* C2 (as claimed): when get completes, it has returned exactly one projection
\* for each requested identifier that had a row in games__bundle, for every
\* valid filter value.
C2_OnePerKnown ==
    [][GetCompletes =>
        \A id \in get'.known :
            Cardinality({i \in 1..Len(get'.bundles) : get'.bundles[i].bundle_id = id}) = 1]_vars

\* the optional fields a filter string names: its comma-separated entries that
\* are column keys, and all three when it is empty
NamedFields(params) ==
    IF params = <<>> THEN {"name", "removed", "apps"}
    ELSE {params[i] : i \in {j \in 1..Len(params) :
            /\ params[j] \in {"name", "removed", "apps"}
            /\ (j = 1 \/ params[j - 1] = ",")
            /\ (j = Len(params) \/ params[j + 1] = ",")}}

\* C3: every projection get returns has bundle_id, last_update, a boolean
\* queued_for_update, and exactly the optional fields the filter names (all
\* three when the filter is empty).
C3_ProjectionFields ==
    get.pc = "done" =>
        \A i \in 1..Len(get.bundles) :
            /\ DOMAIN get.bundles[i] =
                   {"bundle_id", "last_update", "queued_for_update"}
                   \cup NamedFields(get.params)
            /\ get.bundles[i].queued_for_update \in BOOLEAN

\* get with filters = "name" has returned a projection: it has no removed and
\* no apps field
C3_Witness ==
    /\ get.pc = "done"
    /\ get.params = <<"name">>
    /\ Len(get.bundles) > 0
    /\ DOMAIN get.bundles[1] = {"bundle_id", "name", "last_update", "queued_for_update"}

\* C4: a call of get whose filter string is no list of column keys (it holds a
\* foreign word, or a comma that follows no key) throws the validation error
\* in the step it begins: nothing is read, the store is unchanged and no
\* projection is returned.
C4_InvalidFilterNoAccess ==
    [][(GetBegins /\ \E i \in 1..Len(get'.params) :
            \/ get'.params[i] \notin {"name", "removed", "apps", ","}
            \/ get'.params[i] = "," /\ (i = 1 \/ get'.params[i - 1] = ","))
        => /\ get'.pc = "failed"
           /\ get'.err = "validation"
           /\ get'.rows = <<>> /\ get'.appMap = <<>> /\ get'.known = {}
           /\ get'.bundles = <<>>
           /\ store' = store]_vars

\* get was called with "name,bogus" on a store that holds a row of a requested
\* bundle, and threw
C4_Witness ==
    /\ get.pc = "failed"
    /\ get.err = "validation"
    /\ get.params = <<"name", ",", "bogus">>
    /\ SeqToSet(get.ids) \cap DOMAIN games__bundle # {}

\* the rows of a bundle in the store, before and after a step
ViewOf(id) == View(games__bundle, games__bundle_name, games__bundle_app, id)
ViewAfter(id) == View(games__bundle', games__bundle_name', games__bundle_app', id)

\* C5: a fetch whose page has content never throws the service error: it takes
\* the time and begins its transaction, whatever the page is, and can fail
\* only on a store error; when it commits, the primary row is
\* {removed as the final URL says, last_update = the time taken,
\* queued_for_update = FALSE}, whatever it was.
C5_ReachableFetchOverwrites ==
    [][\A p \in Procs :
        LET id == fetch[p].bundleId
            r == fetch[p].storeResponse
        IN  /\ (FetchBegins(p) /\ fetch'[p].storeResponse.html)
                => fetch'[p].pc = "upsert" /\ fetch'[p].last_update = now
            /\ (FetchThrows(p) /\ r.html) => fetch'[p].err = "store"
            /\ FetchCommits(p)
                => /\ r.html
                   /\ id \in DOMAIN games__bundle'
                   /\ games__bundle'[id] =
                         [removed |-> ~(r.url # 0 /\ DigitPrefix(id, r.url)),
                          last_update |-> fetch[p].last_update,
                          queued_for_update |-> FALSE]]_vars

\* get queued bundle 1, then a fetch of 1 met a page without header and
\* committed: the queued row is overwritten
C5_Witness ==
    /\ get.pc = "done"
    /\ 1 \in SeqToSet(get.to_queue)
    /\ fetch["f1"].pc = "done"
    /\ fetch["f1"].bundleId = 1
    /\ fetch["f1"].storeResponse = Page(1, NoHeader, {10})
    /\ 1 \in DOMAIN games__bundle
    /\ games__bundle[1] = [removed |-> FALSE, last_update |-> fetch["f1"].last_update,
                           queued_for_update |-> FALSE]

\* C6: a fetch whose request yields no content throws the service error in the
\* step it begins, with no transaction and the three tables unchanged.
C6_UnavailableNoMutation ==
    [][\A p \in Procs :
        (FetchBegins(p) /\ ~fetch'[p].storeResponse.html)
        => /\ fetch'[p].pc = "failed"
           /\ fetch'[p].err = "steam"
           /\ fetch'[p].tx = EmptyView
           /\ store' = store]_vars

\* a fetch of a queued bundle got no content and threw; the row is still queued
C6_Witness ==
    /\ fetch["f1"].pc = "failed"
    /\ fetch["f1"].err = "steam"
    /\ fetch["f1"].bundleId \in DOMAIN games__bundle
    /\ games__bundle[fetch["f1"].bundleId] =
          [removed |-> DefaultRemoved, last_update |-> DefaultLastUpdate,
           queued_for_update |-> TRUE]

\* C7: the rows of a bundle change in the store only by the queue write of get
\* or by the commit of a fetch of that bundle, and a commit brings all three
\* writes at once; when a statement of the transaction throws, fetch throws the
\* store error and the three tables are as they were.
C7_FetchAtomic ==
    [][/\ \A id \in Ids :
            ViewAfter(id) # ViewOf(id)
            => \/ /\ get.pc = "queue" /\ get'.pc = "done"
                  /\ id \in SeqToSet(get.to_queue)
                  /\ ViewAfter(id) = [ViewOf(id) EXCEPT !.b = QueueWrite(@, <<id>>)]
               \/ \E p \in Procs :
                    /\ FetchCommits(p)
                    /\ fetch[p].bundleId = id
                    /\ ViewAfter(id) = FetchWrites(ViewOf(id), id, fetch[p].storeResponse,
                                                   fetch[p].last_update)
       /\ \A p \in Procs :
            FetchThrows(p)
            => /\ store' = store
               /\ fetch'[p].err = "store"
               /\ fetch'[p].tx = EmptyView]_vars

\* a fetch of a bundle without rows threw at the insert of the app rows, after
\* the upsert and the insert of the name: the store holds none of them
C7_Witness ==
    /\ fetch["f1"].pc = "failed"
    /\ fetch["f1"].err = "store"
    /\ fetch["f1"].thrownAt = "apps"
    /\ Truthy(BundleName(fetch["f1"].storeResponse, fetch["f1"].bundleId))
    /\ ViewOf(fetch["f1"].bundleId) = EmptyView

\* the rows of a bundle without last_update
Strip(v) ==
    [b |-> [i \in DOMAIN v.b |->
              [removed |-> v.b[i].removed, queued_for_update |-> v.b[i].queued_for_update]],
     n |-> v.n, a |-> v.a]

\* C8: when a fetch commits, the writes of a second fetch of the same page (at
\* the same time or later) on the rows it left leave the name row, the app
\* rows, removed and queued_for_update as they are; last_update is the time of
\* the second.
C8_FetchIdempotent ==
    [][\A p \in Procs :
        FetchCommits(p) =>
            \A d \in {0} \cup TickSteps :
                LET id == fetch[p].bundleId
                    once == ViewAfter(id)
                    twice == FetchWrites(once, id, fetch[p].storeResponse, now + d)
                IN  /\ Strip(twice) = Strip(once)
                    /\ twice.b[id].last_update = now + d]_vars

\* a fetch of bundle 1 has committed name A and apps 10 and 20; a later fetch
\* of the same page has made its writes and is about to commit
C8_Witness ==
    /\ fetch["f1"].pc = "commit"
    /\ fetch["f1"].bundleId = 1
    /\ fetch["f1"].storeResponse = Page(1, "A", {10, 20})
    /\ 1 \in DOMAIN games__bundle
    /\ ~games__bundle[1].queued_for_update
    /\ games__bundle_name = {<<1, "A">>}
    /\ AppsOf(games__bundle_app, 1) = {10, 20}
    /\ fetch["f1"].tx.b[1].last_update > games__bundle[1].last_update
    /\ Strip(fetch["f1"].tx) = Strip(ViewOf(1))

\* C9 (as claimed): when a fetch whose final URL is not the bundle's commits,
\* the store holds the primary row with removed = TRUE and
\* queued_for_update = FALSE, no name row and no app row of the bundle.
C9_RedirectLeavesNoChildren ==
    [][\A p \in Procs :
        LET id == fetch[p].bundleId
        IN  (FetchCommits(p) /\ Removed(fetch[p].storeResponse, id))
            => /\ id \in DOMAIN games__bundle'
               /\ games__bundle'[id].removed
               /\ ~games__bundle'[id].queued_for_update
               /\ id \notin HasName(games__bundle_name')
               /\ AppsOf(games__bundle_app', id) = {}]_vars

\* C10 (as claimed): when a fetch that scraped the bundle's own page commits,
\* the app rows of the bundle are those of the apps it found.
C10_AppsReplaced ==
    [][\A p \in Procs :
        LET id == fetch[p].bundleId
            r == fetch[p].storeResponse
        IN  (FetchCommits(p) /\ isStoreResponseOk(r) /\ r.url = id)
            => AppsOf(games__bundle_app', id) = AppsFound(r, id)]_vars

\* C11: a record that get read with queued_for_update = FALSE and a last_update
\* more than 6 days before the time get takes is put in to_queue, whatever its
\* name, removed, app rows and the filters are; and when get completes, every
\* bundle in to_queue has its stored queued_for_update = TRUE.
C11_OldRequeued ==
    [][/\ GetEvaluates =>
            \A id \in DOMAIN get'.read :
                (/\ ~get'.read[id].queued_for_update
                 /\ now - get'.read[id].last_update > 6 * Day)
                => id \in SeqToSet(get'.to_queue)
       /\ GetCompletes =>
            \A id \in SeqToSet(get'.to_queue) :
                /\ id \in DOMAIN games__bundle'
                /\ games__bundle'[id].queued_for_update]_vars

\* bundle 1 was fetched (name A, not removed); 7 days later a get with
\* filters = "name" read it with the flag clear, and left it queued
C11_Witness ==
    /\ get.pc = "done"
    /\ get.params = <<"name">>
    /\ 1 \in DOMAIN get.read
    /\ get.read[1] = [removed |-> FALSE, last_update |-> StartTime,
                      queued_for_update |-> FALSE, name |-> "A"]
    /\ now = StartTime + 7 * Day
    /\ 1 \in SeqToSet(get.to_queue)
    /\ games__bundle[1] = [removed |-> FALSE, last_update |-> StartTime,
                           queued_for_update |-> TRUE]

\* C12 (as claimed): a record that get read without a name, with
\* queued_for_update = FALSE and a last_update 2 hours before the time get
\* takes is put in to_queue (and so queued in the store) when its removed is
\* FALSE, and is not when its removed is TRUE.
C12_TwoHoursNameless ==
    [][GetEvaluates =>
        \A id \in DOMAIN get'.read :
            (/\ get'.read[id].name = Undefined
             /\ ~get'.read[id].queued_for_update
             /\ now - get'.read[id].last_update = 2 * Hour)
            => (id \in SeqToSet(get'.to_queue) <=> ~get'.read[id].removed)]_vars

\* C13: the last_update of a row of games__bundle changes only in the step in
\* which a fetch of that bundle commits, and becomes the time that fetch took;
\* no step of get changes the last_update of a row that exists.
C13_LastUpdateOnlyByFetch ==
    [][\A id \in DOMAIN games__bundle \cap DOMAIN games__bundle' :
        /\ games__bundle'[id].last_update # games__bundle[id].last_update
            => \E p \in Procs :
                /\ FetchCommits(p)
                /\ fetch[p].bundleId = id
                /\ games__bundle'[id].last_update = fetch[p].last_update
        /\ get' # get
            => games__bundle'[id].last_update = games__bundle[id].last_update]_vars

\* a fetch stored bundle 1 at StartTime; 7 days later a get read it with the
\* flag clear and its queue write set the flag: last_update is still StartTime
C13_Witness ==
    /\ get.pc = "done"
    /\ 1 \in DOMAIN get.read
    /\ ~get.read[1].queued_for_update
    /\ get.read[1].last_update = StartTime
    /\ 1 \in SeqToSet(get.to_queue)
    /\ now > StartTime
    /\ games__bundle[1].queued_for_update
    /\ games__bundle[1].last_update = StartTime

\* C14: a stored queued_for_update goes from TRUE to FALSE only in the step in
\* which a fetch of that bundle commits; no step of get clears it, and the step
\* in which a fetch throws (with or without a transaction to roll back)
\* leaves every flag as it was.
C14_FlagClearedOnlyByFetch ==
    [][\A id \in DOMAIN games__bundle \cap DOMAIN games__bundle' :
        /\ (games__bundle[id].queued_for_update /\ ~games__bundle'[id].queued_for_update)
            => \E p \in Procs : FetchCommits(p) /\ fetch[p].bundleId = id
        /\ (get' # get /\ games__bundle[id].queued_for_update)
            => games__bundle'[id].queued_for_update
        /\ (\E p \in Procs : fetch'[p] # fetch[p] /\ fetch'[p].pc = "failed")
            => games__bundle'[id].queued_for_update = games__bundle[id].queued_for_update]_vars

\* get queued a bundle; a fetch of it made its writes, threw at the commit and
\* was rolled back: the bundle is still queued
C14_Witness ==
    /\ get.pc = "done"
    /\ fetch["f1"].pc = "failed"
    /\ fetch["f1"].thrownAt = "commit"
    /\ fetch["f1"].bundleId \in SeqToSet(get.to_queue)
    /\ fetch["f1"].bundleId \in DOMAIN games__bundle
    /\ games__bundle[fetch["f1"].bundleId].queued_for_update

\* the projection of a bundle in `bundles` reports queued_for_update = TRUE
Reported(g, id) ==
    \E i \in 1..Len(g.bundles) :
        g.bundles[i].bundle_id = id /\ g.bundles[i].queued_for_update

\* C15 (as claimed, for the bundles get returns a projection of): for every
\* bundle that had a row when get read, get reports queued_for_update = TRUE,
\* and has the flag TRUE in the store when it is done (the flag was set
\* already, or the bundle is in to_queue), if and only if the stored flag was
\* TRUE, or the age exceeds 6 days, or the name is absent or empty and removed
\* is FALSE and the age exceeds 1 day; a bundle that meets none of the three
\* is not put in to_queue.
C15_RequeueRule ==
    [][GetEvaluates =>
        \A id \in DOMAIN get'.read \cap Returned(get') :
            LET rec == get'.read[id]
                age == now - rec.last_update
                rule == \/ rec.queued_for_update
                        \/ age > 6 * Day
                        \/ /\ rec.name \in {Undefined, ""}
                           /\ ~rec.removed
                           /\ age > Day
            IN  /\ Reported(get', id) <=> rule
                /\ (rec.queued_for_update \/ id \in SeqToSet(get'.to_queue)) <=> rule]_vars

\* the filter strings of Requests that pass validation
ValidParams == {ParamsOf(req) : req \in {r \in Requests : ~validateParams(ParamsOf(r))}}

\* what a get of `ids` with the filter string `params` would read, queue and
\* return in the present state
RowsBy(ids, params) ==
    SelectRows(games__bundle, games__bundle_name, ids, FiltersOf(params))
QueuedBy(ids, params) == SeqToSet(ToQueueOf(ids, RowsBy(ids, params), now))
ReturnedBy(ids, params) == FoundOf(RowsBy(ids, params))

\* C16 (as claimed): in every state of the store and for every list of
\* identifiers, the set of bundles get queues and the set of bundles get
\* returns a projection of are the same for every valid filter string.
C16_FilterIndependent ==
    \A ids \in IdLists :
        \A p \in ValidParams, q \in ValidParams :
            /\ QueuedBy(ids, p) = QueuedBy(ids, q)
            /\ ReturnedBy(ids, p) = ReturnedBy(ids, q)

\* the vocabulary, as tokens of a split filter string
Vocabulary == {<<"name">>, <<"removed">>, <<"apps">>}

\* C17 (as claimed): a call of get with a non-empty filter string that, split
\* on commas, has a token outside the vocabulary throws the validation error;
\* a call that passes validation has as its filters the vocabulary tokens
\* its string lists, and all three when the string is empty.
C17_TokensValidated ==
    [][GetBegins =>
        LET params == get'.params
            tokens == SeqToSet(Split(params, <<>>))
        IN  /\ (params # <<>> /\ ~(tokens \subseteq Vocabulary))
                => get'.pc = "failed" /\ get'.err = "validation"
            /\ get'.err # "validation"
                => FiltersOf(params) =
                      IF params = <<>> THEN {"name", "removed", "apps"}
                      ELSE {tok[1] : tok \in tokens \cap Vocabulary}]_vars

\* the bundles that have a row in games__bundle_app
HasApps(a) == {e[1] : e \in BagToSet(a)}

\* C18: no step removes a row from games__bundle, and after every step every
\* row of games__bundle_name and of games__bundle_app is of a bundle that
\* has a row in games__bundle (the store starts empty).
C18_ChildRowsOwned ==
    [][/\ DOMAIN games__bundle \subseteq DOMAIN games__bundle'
       /\ HasName(games__bundle_name') \subseteq DOMAIN games__bundle'
       /\ HasApps(games__bundle_app') \subseteq DOMAIN games__bundle']_vars

\* two calls of fetch were made and no get; the second, of bundle 1, committed
\* its primary row, its name row and its app rows, and the store holds no
\* other row
C18_Witness ==
    /\ fetch["f1"].pc = "done"
    /\ calls = 2
    /\ get.pc = "idle"
    /\ DOMAIN games__bundle = {1}
    /\ HasName(games__bundle_name) = {1}
    /\ HasApps(games__bundle_app) = {1}

\* the rows of a bundle before the two fetches, and after the writes of the
\* fetch f on the rows v
View19(id) == View(InitBundle19, InitName19, InitApp19, id)
After19(v, f) == FetchWrites(v, f.bundleId, f.storeResponse, f.last_update)

\* C19: when two fetches of the same bundle, run by two connections in any
\* interleaving, have both committed, the rows of the bundle are those that
\* the writes of one fetch followed by the writes of the other leave, in one
\* of the two orders: the primary row is the record of one of the two fetches,
\* there is at most one name row and no app row twice.
C19_TwoFetchesSerial ==
    LET f1 == fetch["f1"]
        f2 == fetch["f2"]
        id == f1.bundleId
    IN  (f1.pc = "done" /\ f2.pc = "done" /\ f2.bundleId = id)
        => /\ ViewOf(id) \in {After19(After19(View19(id), f1), f2),
                              After19(After19(View19(id), f2), f1)}
           /\ \E f \in {f1, f2} :
                games__bundle[id] = [removed |-> Removed(f.storeResponse, id),
                                     last_update |-> f.last_update,
                                     queued_for_update |-> FALSE]
           /\ Cardinality({r \in games__bundle_name : r[1] = id}) <= 1
           /\ \A app \in Apps : CopiesIn(<<id, app>>, games__bundle_app) <= 1

\* two fetches of bundle 1 overlapped: f1 took its time first and scraped the
\* redirect, f2 took its time later, scraped the page with two apps and
\* committed first; f1 committed last, so the primary row is f1's record and
\* the name and app rows are those f2 inserted
C19_Witness ==
    /\ fetch["f1"].pc = "done" /\ fetch["f2"].pc = "done"
    /\ fetch["f1"].bundleId = 1 /\ fetch["f2"].bundleId = 1
    /\ fetch["f1"].storeResponse = Page(0, "A", {10})
    /\ fetch["f2"].storeResponse = Page(1, "A", {10, 20})
    /\ fetch["f1"].last_update < fetch["f2"].last_update
    /\ games__bundle[1] = [removed |-> TRUE, last_update |-> fetch["f1"].last_update,
                           queued_for_update |-> FALSE]
    /\ games__bundle_name = InitName19 \cup {<<1, "A">>}
    /\ AppsOf(games__bundle_app, 1) = {10, 20}

\* C20: the queue write of get sets queued_for_update = TRUE for every bundle
\* in the to_queue it computed from the rows it read, whatever the store holds
\* by then; a row that exists (one a fetch has committed since, for instance)
\* keeps its removed and last_update, and no other row of games__bundle and no
\* row of games__bundle_name or games__bundle_app changes.
C20_QueueWriteOnlyFlag ==
    [][GetWrites =>
        /\ \A id \in SeqToSet(get.to_queue) :
                /\ id \in DOMAIN games__bundle'
                /\ games__bundle'[id].queued_for_update
                /\ id \in DOMAIN games__bundle
                    => games__bundle'[id] =
                          [games__bundle[id] EXCEPT !.queued_for_update = TRUE]
        /\ \A id \in DOMAIN games__bundle \ SeqToSet(get.to_queue) :
                id \in DOMAIN games__bundle' /\ games__bundle'[id] = games__bundle[id]
        /\ games__bundle_name' = games__bundle_name
        /\ games__bundle_app' = games__bundle_app]_vars

\* get read while bundle 1 had no row and put it in to_queue; a fetch of
\* bundle 1 committed; then the queue write landed: the row is the one the
\* fetch wrote with queued_for_update = TRUE, and the name and app rows stay
C20_Witness ==
    /\ get.pc = "done"
    /\ 1 \notin get.known
    /\ 1 \in SeqToSet(get.to_queue)
    /\ fetch["f1"].pc = "done"
    /\ fetch["f1"].bundleId = 1
    /\ fetch["f1"].storeResponse = Page(1, "A", {10, 20})
    /\ games__bundle[1] = [removed |-> FALSE, last_update |-> fetch["f1"].last_update,
                           queued_for_update |-> TRUE]
    /\ games__bundle_name = {<<1, "A">>}
    /\ AppsOf(games__bundle_app, 1) = {10, 20}

====
